---- MODULE Spec2Model ----
(***************************************************************************)
(* The resilient secret-fetch pipeline of the doppler CLI:                 *)
(*   - the run command (cmd/run.go): getSecrets, readFallbackFile and the  *)
(*     launch of the child process;                                        *)
(*   - the retrying HTTP client (package http): performRequest, isSuccess, *)
(*     isRetry, GetRequest.                                                *)
(* One invocation of `doppler run` is one synchronous control flow; the    *)
(* fallback file on disk persists from one invocation to the next.         *)
(***************************************************************************)
EXTENDS Integers, Sequences, FiniteSets, TLC

VARIABLES
    pc,               \* position of the control flow of the invocation
    runs,             \* number of invocations started so far
    fallbackPath,     \* run.go:54   "" when no fallback path is configured
    fallbackReadonly, \* run.go:52
    fallbackOnly,     \* run.go:53
    file,             \* the fallback file on disk
    attempts,         \* calls of the closure made by retry in this request
    hist,             \* history: outcome of each attempt (status, 0 = transport error)
    response,         \* part_001:138  var response *http.Response
    requestErr,       \* part_001:141  the error retry returned
    bodyRead,         \* history: "ok" or "failed", the outcome of ioutil.ReadAll
    result,           \* what performRequest returned: status, body, err
    fetched,          \* history: how the network fetch of this invocation ended
    consulted,        \* history: readFallbackFile was called in this invocation
    wrote,            \* history: outcome of ioutil.WriteFile in this invocation
    secrets,          \* what getSecrets returned
    fatal,            \* "" or the reason utils.Err ended the invocation
    launched,         \* utils.RunCommand was called
    environ,          \* run.go:63  os.Environ() as the launch read it
    childEnv,         \* run.go:79  the env handed to utils.RunCommand
    trail,            \* history: the stages this invocation's fetch went through
    store,            \* the config file: the set of <<scope, option, value>> it holds
    inv,              \* the invocations of configure: position, arguments, locals
    calls,            \* number of configure invocations started so far
    events,           \* history: the reads and writes of the config file, in order
    resolved          \* what configuration.LocalConfig gave the last configure debug

runVars == <<pc, runs, fallbackPath, fallbackReadonly, fallbackOnly, file,
          attempts, hist, response, requestErr, bodyRead, result, fetched,
          consulted, wrote, secrets, fatal, launched, environ, childEnv, trail>>

confVars == <<store, inv, calls, events, resolved>>

vars == <<runVars, confVars>>

(***************************************************************************)
(* Bounds of the model.                                                    *)
(***************************************************************************)
MaxRuns == 2

\* configure invocations started in one behaviour
MaxCalls == 2

\* arguments of one configure invocation
MaxArgs == 2

(***************************************************************************)
(* Payloads: the bytes of an HTTP body or of the fallback file.  A payload *)
(* is what a JSON decoder can see of it: whether it is valid JSON, which   *)
(* kind of object it holds, its variables and its messages.                *)
(***************************************************************************)
NoVariables == [n \in {} |-> [raw |-> "", computed |-> ""]]

NilBody == [json |-> FALSE, kind |-> "nil", variables |-> NoVariables, messages |-> <<>>]

SecretsA ==
    [json |-> TRUE, kind |-> "secrets",
     variables |-> ("API_KEY" :> [raw |-> "x", computed |-> "y"])
                   @@ ("PATH" :> [raw |-> "/evil", computed |-> "/evil"])
                   @@ ("PS1" :> [raw |-> "$ ", computed |-> "$ "]),
     messages |-> <<>>]

SecretsB ==
    [json |-> TRUE, kind |-> "secrets",
     variables |-> ("DB_URL" :> [raw |-> "${HOST}/db", computed |-> "h/db"])
                   @@ ("HOME" :> [raw |-> "/tmp", computed |-> "/tmp"]),
     messages |-> <<>>]

ErrorBody ==
    [json |-> TRUE, kind |-> "error", variables |-> NoVariables,
     messages |-> <<"Invalid token", "Try again">>]

Garbage == [json |-> FALSE, kind |-> "garbage", variables |-> NoVariables, messages |-> <<>>]

Truncated == [json |-> FALSE, kind |-> "truncated", variables |-> NoVariables, messages |-> <<>>]

\* the bodies a server may answer with
Bodies == {SecretsA, ErrorBody, Garbage}

\* the statuses a server may answer with
Statuses == {100, 200, 404, 429, 503}

(***************************************************************************)
(* Errors.                                                                 *)
(***************************************************************************)
NilErr == [kind |-> "nil", msgs |-> <<>>]
TransportErr == [kind |-> "transport", msgs |-> <<"connection refused">>]
RequestFailed == [kind |-> "request", msgs |-> <<"Request failed">>]
ReadErr == [kind |-> "read", msgs |-> <<"unexpected EOF">>]
JSONErr == [kind |-> "json", msgs |-> <<"invalid character">>]

\* the pieces written from the i-th message on, sep before every message but
\* the first
RECURSIVE joinFrom(_, _, _)
joinFrom(messages, i, sep) ==
    IF i > Len(messages) THEN <<>>
    ELSE (IF i # 1 THEN sep ELSE <<>>) \o <<messages[i]>> \o joinFrom(messages, i + 1, sep)

\* mutant of joinMessages: no separator is written between the messages
joinMessagesNoSeparator(messages) == joinFrom(messages, 1, <<>>)

\* the strings.Builder loop: "\n" before every message but the first; the
\* text built is the sequence of the pieces written
joinMessages(messages) == joinFrom(messages, 1, <<"\n">>)

\* errors.New(sb.String())
APIErr(messages) == [kind |-> "api", msgs |-> joinMessages(messages)]

(***************************************************************************)
(* package http                                                            *)
(***************************************************************************)
NoResponse == [present |-> FALSE, status |-> 0, body |-> NilBody]

\* mutant of isSuccess: the lower bound is exclusive
isSuccessAbove200(statusCode) == statusCode > 200 /\ statusCode <= 299

isSuccess(statusCode) == statusCode >= 200 /\ statusCode <= 299

\* mutant of isRetry: every 4xx status is retried, not only 429
isRetryAny4xx(statusCode) ==
    \/ (statusCode >= 400 /\ statusCode <= 499)
    \/ (statusCode >= 100 /\ statusCode <= 199)
    \/ (statusCode >= 500 /\ statusCode <= 599)

isRetry(statusCode) ==
    \/ statusCode = 429
    \/ (statusCode >= 100 /\ statusCode <= 199)
    \/ (statusCode >= 500 /\ statusCode <= 599)

\* mutant of MaxAttempts: one attempt more
MaxAttemptsPlusOne == 5 + 1

\* retry(5, 100*time.Millisecond, ...)
MaxAttempts == 5

\* what one attempt can meet: a transport error, or an HTTP response
Outcomes ==
    {[err |-> TRUE, status |-> 0, body |-> NilBody]}
    \cup [err : {FALSE}, status : Statuses, body : Bodies]

\* mutant of closure: a transport error is a plain error, not a StopRetry
closureRetriesTransport(o) ==
    IF o.err THEN [kind |-> "plain", err |-> TransportErr]
    ELSE IF isSuccess(o.status) THEN [kind |-> "nil", err |-> NilErr]
    ELSE IF isRetry(o.status) THEN [kind |-> "plain", err |-> RequestFailed]
    ELSE [kind |-> "stop", err |-> RequestFailed]

\* the closure handed to retry: what it returns for one outcome of client.Do
closure(o) ==
    IF o.err THEN [kind |-> "stop", err |-> TransportErr]
    ELSE IF isSuccess(o.status) THEN [kind |-> "nil", err |-> NilErr]
    ELSE IF isRetry(o.status) THEN [kind |-> "plain", err |-> RequestFailed]
    ELSE [kind |-> "stop", err |-> RequestFailed]

\* response = resp: only an attempt that got a response assigns the variable
closureResponse(o, old) ==
    IF o.err THEN old
    ELSE [present |-> TRUE, status |-> o.status, body |-> o.body]

\* retry(attempts, sleep, f): f is called again only after a plain error and
\* while fewer than `limit` calls were made; nil and StopRetry end the loop
retryStops(made, limit, r) == r.kind # "plain" \/ made >= limit

\* one attempt: retry calls the closure once
Attempt ==
    /\ pc = "request"
    /\ \E o \in Outcomes :
         LET r == closure(o)
             made == attempts + 1
         IN /\ attempts' = made
            /\ hist' = Append(hist, o.status)
            /\ response' = closureResponse(o, response)
            /\ IF retryStops(made, MaxAttempts, r)
                 THEN requestErr' = r.err /\ pc' = "respond"
                 ELSE requestErr' = requestErr /\ pc' = "request"
    /\ UNCHANGED <<runs, fallbackPath, fallbackReadonly, fallbackOnly, file,
                   bodyRead, result, fetched, consulted, wrote, secrets, fatal,
                   launched, environ, childEnv, trail>>
    /\ UNCHANGED confVars

\* mutant of performRequestResult: an empty joined message gives no error
performRequestResultNilOnEmpty(resp, rerr, readOk) ==
    IF rerr # NilErr /\ ~resp.present
      THEN [status |-> 0, body |-> NilBody, err |-> rerr]
    ELSE IF ~readOk
      THEN [status |-> resp.status, body |-> NilBody, err |-> ReadErr]
    ELSE IF rerr = NilErr
      THEN [status |-> resp.status, body |-> resp.body, err |-> NilErr]
    ELSE IF ~resp.body.json
      THEN [status |-> resp.status, body |-> NilBody, err |-> JSONErr]
    ELSE [status |-> resp.status, body |-> resp.body,
          err |-> IF resp.body.messages = <<>> THEN NilErr
                  ELSE APIErr(resp.body.messages)]

\* performRequest after retry returned: what it returns to its caller.
\* readOk: ioutil.ReadAll(response.Body) succeeded
performRequestResult(resp, rerr, readOk) ==
    IF rerr # NilErr /\ ~resp.present
      THEN [status |-> 0, body |-> NilBody, err |-> rerr]
    ELSE IF ~readOk
      THEN [status |-> resp.status, body |-> NilBody, err |-> ReadErr]
    ELSE IF rerr = NilErr
      THEN [status |-> resp.status, body |-> resp.body, err |-> NilErr]
    ELSE IF ~resp.body.json
      THEN [status |-> resp.status, body |-> NilBody, err |-> JSONErr]
    ELSE [status |-> resp.status, body |-> resp.body, err |-> APIErr(resp.body.messages)]

\* GetRequest hands performRequest's three results to its caller unchanged
GetRequest(r) ==
    IF r.err # NilErr THEN [status |-> r.status, body |-> r.body, err |-> r.err]
    ELSE [status |-> r.status, body |-> r.body, err |-> NilErr]

PerformRequestReturn ==
    /\ pc = "respond"
    /\ \E readOk \in BOOLEAN :
         \* without a response there is no body to read
         /\ (~response.present => readOk)
         /\ bodyRead' = IF ~response.present THEN "none"
                        ELSE IF readOk THEN "ok" ELSE "failed"
         /\ result' = GetRequest(performRequestResult(response, requestErr, readOk))
    /\ fetched' = IF result'.err = NilErr THEN "ok" ELSE "failed"
    /\ pc' = "fetched"
    /\ UNCHANGED <<runs, fallbackPath, fallbackReadonly, fallbackOnly, file,
                   attempts, hist, response, requestErr, consulted, wrote, secrets,
                   fatal, launched, environ, childEnv, trail>>
    /\ UNCHANGED confVars

(***************************************************************************)
(* package api and utils, as the run command uses them                     *)
(***************************************************************************)
NoMap == [n \in {} |-> ""]
NoSecrets == [ok |-> FALSE, map |-> NoMap]

\* api.ParseDeploySecrets: the payload parsed into name -> computed value;
\* an error for bytes that are not a secrets object
ParseDeploySecrets(payload) ==
    IF payload.json /\ payload.kind = "secrets"
      THEN [ok |-> TRUE,
            map |-> [n \in DOMAIN payload.variables |-> payload.variables[n].computed]]
      ELSE NoSecrets

\* api.GetDeploySecrets: the body and the error of the HTTP GET
GetDeploySecrets(r) == [response |-> r.body, err |-> r.err]

\* utils.Err: prints the error and ends the process with a non-zero status,
\* so nothing is returned to the caller
Err(reason) == [secrets |-> NoSecrets, fatal |-> reason]

Return(s) == [secrets |-> s, fatal |-> ""]

(***************************************************************************)
(* The fallback file on disk                                               *)
(***************************************************************************)
Absent == [exists |-> FALSE, readable |-> FALSE, data |-> NilBody]

\* ioutil.ReadFile
ReadFile(f) ==
    IF f.exists /\ f.readable THEN [ok |-> TRUE, data |-> f.data]
    ELSE [ok |-> FALSE, data |-> NilBody]

\* ioutil.WriteFile(path, data, 0600): creates the file or truncates it and
\* writes data.  It can fail before the file is opened ("fail": the file is as
\* it was) or after it was truncated ("partial").  The mode is given to a file
\* it creates; an existing file keeps its mode.
WriteOutcomes == {"ok", "fail", "partial"}

WriteFile(f, data, w) ==
    IF w = "fail" THEN f
    ELSE [exists |-> TRUE,
          readable |-> IF f.exists THEN f.readable ELSE TRUE,
          data |-> IF w = "ok" THEN data ELSE Truncated]

(***************************************************************************)
(* cmd/run.go                                                              *)
(***************************************************************************)
\* mutant of readFallbackFile: a file that cannot be read gives no secrets
\* instead of ending the invocation
readFallbackFileLenient(f) ==
    LET rd == ReadFile(f)
        parsed == ParseDeploySecrets(rd.data)
    IN IF ~rd.ok THEN Return([ok |-> TRUE, map |-> NoMap])
       ELSE IF ~parsed.ok THEN Err("Unable to parse fallback file")
       ELSE Return(parsed)

\* mutant of readFallbackFile: the parse error is not looked at
readFallbackFileNoParseCheck(f) ==
    LET rd == ReadFile(f)
        parsed == ParseDeploySecrets(rd.data)
    IN IF ~rd.ok THEN Err("Unable to read fallback file")
       ELSE Return(parsed)

readFallbackFile(f) ==
    LET rd == ReadFile(f)
        parsed == ParseDeploySecrets(rd.data)
    IN IF ~rd.ok THEN Err("Unable to read fallback file")
       ELSE IF ~parsed.ok THEN Err("Unable to parse fallback file")
       ELSE Return(parsed)

\* mutant of useFallbackFile: the comparison is inverted
useFallbackFileInverted(path) == path = ""

useFallbackFile(path) == path # ""

\* getSecrets, its first branch: the network is skipped
skipNetwork(path, only) == useFallbackFile(path) /\ only

\* mutant of writesFallback: read-only mode is not looked at
writesFallbackIgnoringReadonly(path, readonly, err) ==
    useFallbackFile(path) /\ err = NilErr

\* getSecrets writes the fallback file
writesFallback(path, readonly, err) ==
    useFallbackFile(path) /\ err = NilErr /\ ~readonly

\* getSecrets from the return of api.GetDeploySecrets on: the file it leaves,
\* whether it called readFallbackFile, and what it returns.  w: the outcome
\* of ioutil.WriteFile, should it be called
getSecretsAfterFetch(path, readonly, got, f, w) ==
    LET parsed == ParseDeploySecrets(got.response)
        same == [file |-> f, consulted |-> FALSE, wrote |-> "no"]
    IN IF ~useFallbackFile(path) /\ got.err # NilErr
         THEN same @@ Err("Unable to fetch secrets")
       ELSE IF useFallbackFile(path) /\ got.err # NilErr
         THEN [file |-> f, consulted |-> TRUE, wrote |-> "no"] @@ readFallbackFile(f)
       ELSE IF writesFallback(path, readonly, got.err) /\ w # "ok"
         THEN [file |-> WriteFile(f, got.response, w), consulted |-> FALSE, wrote |-> w]
              @@ Err("Unable to write fallback file")
       ELSE LET after == IF writesFallback(path, readonly, got.err)
                           THEN [file |-> WriteFile(f, got.response, w),
                                 consulted |-> FALSE, wrote |-> w]
                           ELSE same
            IN IF ~parsed.ok THEN after @@ Err("Unable to parse response")
               ELSE after @@ Return(parsed)

\* the stages of a fetch that getSecrets passes when it calls readFallbackFile
stagesOfFallback(r) ==
    <<"FALLBACK", IF r.fatal = "" THEN "CACHED_OK" ELSE "FATAL", "DONE">>

\* the stages getSecrets passes after api.GetDeploySecrets returned `got`,
\* r being what getSecretsAfterFetch gives
stagesAfterFetch(got, r) ==
    IF r.consulted THEN stagesOfFallback(r)
    ELSE IF got.err # NilErr THEN <<"FATAL", "DONE">>
    ELSE IF r.fatal # "" THEN <<"SUCCESS", "FATAL", "DONE">>
    ELSE <<"SUCCESS", "DONE">>

(***************************************************************************)
(* runCmd.Run: the environment of the child process                        *)
(***************************************************************************)
\* fmt.Sprintf("%s=%s", name, value); os.Environ() gives entries of this form
Entry(name, value) == <<name, "=", value>>
EntryName(e) == e[1]

\* what os.Environ() can return
Environs ==
    {<<Entry("PATH", "/usr/bin"), Entry("HOME", "/root"), Entry("API_KEY", "old")>>,
     <<Entry("TERM", "xterm"), Entry("DB_URL", "old/db")>>}

excludedKeys == <<"PATH", "PS1", "HOME">>

\* mutant of addKey: the last excluded key is never compared
addKeySkipsLast(name) == \A i \in 1..(Len(excludedKeys) - 1) : excludedKeys[i] # name

\* the inner loop over excludedKeys
addKey(name) == \A i \in 1..Len(excludedKeys) : excludedKeys[i] # name

\* `for name, value := range secrets` visits the names in an order Go does
\* not define: every order of the names is possible
Orders(S) ==
    {o \in [1..Cardinality(S) -> S] : \A i, j \in 1..Cardinality(S) : o[i] = o[j] => i = j}

\* the loop over the secrets with the secret put in front of the environment
RECURSIVE prependSecrets(_, _, _, _)
prependSecrets(env, order, map, i) ==
    IF i > Len(order) THEN env
    ELSE prependSecrets(IF addKey(order[i])
                          THEN <<Entry(order[i], map[order[i]])>> \o env
                          ELSE env,
                        order, map, i + 1)

\* the loop over the secrets, from the i-th name of the order on
RECURSIVE appendSecrets(_, _, _, _)
appendSecrets(env, order, map, i) ==
    IF i > Len(order) THEN env
    ELSE appendSecrets(IF addKey(order[i])
                         THEN Append(env, Entry(order[i], map[order[i]]))
                         ELSE env,
                       order, map, i + 1)

\* mutant of runEnv: the secrets are put in front of the environment
runEnvPrepends(env, order, map) == prependSecrets(env, order, map, 1)

\* the environment built for the child: env, then the loop over the secrets
runEnv(env, order, map) == appendSecrets(env, order, map, 1)

NoResult == [status |-> 0, body |-> NilBody, err |-> NilErr]

\* the fallback path the flag can give: "" when the flag is not set or when
\* utils.GetFilePath could not make a path of it
Paths == {"", "fallback.json"}

\* what the fallback file can be before the first invocation
InitialFiles ==
    {Absent,
     [exists |-> TRUE, readable |-> TRUE, data |-> SecretsB],
     [exists |-> TRUE, readable |-> TRUE, data |-> Garbage],
     [exists |-> TRUE, readable |-> FALSE, data |-> SecretsB]}

\* before the first invocation of the run command
RunInit ==
    /\ pc = "idle"
    /\ runs = 0
    /\ fallbackPath = ""
    /\ fallbackReadonly = FALSE
    /\ fallbackOnly = FALSE
    /\ file \in InitialFiles
    /\ attempts = 0
    /\ hist = <<>>
    /\ response = NoResponse
    /\ requestErr = NilErr
    /\ bodyRead = "none"
    /\ result = NoResult
    /\ fetched = "none"
    /\ consulted = FALSE
    /\ wrote = "no"
    /\ secrets = NoSecrets
    /\ fatal = ""
    /\ launched = FALSE
    /\ environ = <<>>
    /\ childEnv = <<>>
    /\ trail = <<>>

\* runCmd.Run up to the call of getSecrets: the arguments and the flags
RunBegin ==
    /\ pc \in {"idle", "done"}
    /\ runs < MaxRuns
    /\ runs' = runs + 1
    /\ \E nargs \in {0, 1}, changed \in BOOLEAN, path \in Paths,
          ro \in BOOLEAN, only \in BOOLEAN :
         /\ (~changed => path = "")
         /\ fallbackPath' = path
         /\ fallbackReadonly' = ro
         /\ fallbackOnly' = only
         /\ IF nargs = 0
              THEN fatal' = "missing argument" /\ pc' = "done"
            ELSE IF changed /\ path = ""
              THEN fatal' = "invalid fallback file path" /\ pc' = "done"
            ELSE fatal' = "" /\ pc' = "getSecrets"
    \* configuration.LocalConfig(cmd) resolves the credentials of the fetch
    /\ trail' = IF pc' = "getSecrets" THEN <<"START", "RESOLVING">> ELSE <<>>
    /\ environ' = <<>>
    /\ childEnv' = <<>>
    /\ attempts' = 0
    /\ hist' = <<>>
    /\ response' = NoResponse
    /\ requestErr' = NilErr
    /\ bodyRead' = "none"
    /\ result' = NoResult
    /\ fetched' = "none"
    /\ consulted' = FALSE
    /\ wrote' = "no"
    /\ secrets' = NoSecrets
    /\ launched' = FALSE
    /\ UNCHANGED file
    /\ UNCHANGED confVars

\* getSecrets up to the call of api.GetDeploySecrets
GetSecretsEntry ==
    /\ pc = "getSecrets"
    /\ IF skipNetwork(fallbackPath, fallbackOnly)
         THEN LET r == readFallbackFile(file)
              IN /\ consulted' = TRUE
                 /\ secrets' = r.secrets
                 /\ fatal' = r.fatal
                 /\ pc' = IF r.fatal = "" THEN "launch" ELSE "done"
                 /\ trail' = trail \o stagesOfFallback(r)
         ELSE /\ pc' = "request"
              /\ trail' = Append(trail, "FETCHING")
              /\ UNCHANGED <<consulted, secrets, fatal>>
    /\ UNCHANGED <<runs, fallbackPath, fallbackReadonly, fallbackOnly, file,
                   attempts, hist, response, requestErr, bodyRead, result, fetched,
                   wrote, launched, environ, childEnv>>
    /\ UNCHANGED confVars

\* getSecrets from the return of api.GetDeploySecrets to its own return
GetSecretsReturn ==
    /\ pc = "fetched"
    /\ \E w \in WriteOutcomes :
         LET r == getSecretsAfterFetch(fallbackPath, fallbackReadonly,
                                       GetDeploySecrets(result), file, w)
         IN /\ file' = r.file
            /\ wrote' = r.wrote
            /\ consulted' = r.consulted
            /\ secrets' = r.secrets
            /\ fatal' = r.fatal
            /\ pc' = IF r.fatal = "" THEN "launch" ELSE "done"
            /\ trail' = trail \o stagesAfterFetch(GetDeploySecrets(result), r)
    \* the locals of performRequest are gone
    /\ hist' = <<>>
    /\ response' = NoResponse
    /\ requestErr' = NilErr
    /\ bodyRead' = "none"
    /\ UNCHANGED <<runs, fallbackPath, fallbackReadonly, fallbackOnly, attempts,
                   result, fetched, launched, environ, childEnv>>
    /\ UNCHANGED confVars

\* runCmd.Run after getSecrets returned: the child process is started
RunLaunch ==
    /\ pc = "launch"
    /\ launched' = TRUE
    /\ \E e \in Environs, order \in Orders(DOMAIN secrets.map) :
         /\ environ' = e
         /\ childEnv' = runEnv(e, order, secrets.map)
    /\ \E spawned \in BOOLEAN :
         fatal' = IF spawned THEN "" ELSE "Error trying to execute command"
    /\ pc' = "done"
    /\ UNCHANGED <<runs, fallbackPath, fallbackReadonly, fallbackOnly, file,
                   attempts, hist, response, requestErr, bodyRead, result, fetched,
                   consulted, wrote, secrets, trail>>
    /\ UNCHANGED confVars

(***************************************************************************)
(* pkg/cmd/configure.go and the configuration package                      *)
(*                                                                         *)
(* A string is the sequence of its pieces: "=" for each '=' character and  *)
(* one piece for each run of other characters.  A scope is the sequence of *)
(* the components of its path, the root being the empty sequence.          *)
(***************************************************************************)
\* strings.Contains(s, "=")
ContainsEq(s) == \E i \in 1..Len(s) : s[i] = "="

\* strings.Split(s, "="), from the i-th piece on, cur being the part begun
RECURSIVE splitFrom(_, _, _)
splitFrom(s, i, cur) ==
    IF i > Len(s) THEN <<cur>>
    ELSE IF s[i] = "=" THEN <<cur>> \o splitFrom(s, i + 1, <<>>)
    ELSE splitFrom(s, i + 1, Append(cur, s[i]))

SplitEq(s) == splitFrom(s, 1, <<>>)

\* the recognised option names
Whitelist == {"token", "project", "config", "api-host", "verify-tls", "enclave"}

\* configuration.IsValidConfigOption
IsValidConfigOption(name) == Len(name) = 1 /\ name[1] \in Whitelist

\* namesArgs that checks the first argument only
namesArgsFirstOnly(args) ==
    IF Len(args) = 0 THEN "requires at least 1 arg(s), only received 0"
    ELSE IF ~IsValidConfigOption(args[1]) THEN "invalid option"
    ELSE ""

\* configureGetCmd.Args and configureUnsetCmd.Args: "" when accepted
namesArgs(args) ==
    IF Len(args) = 0 THEN "requires at least 1 arg(s), only received 0"
    ELSE IF \E i \in 1..Len(args) : ~IsValidConfigOption(args[i]) THEN "invalid option"
    ELSE ""

\* configureSetCmd.Args: "" when accepted
setArgs(args) ==
    IF Len(args) = 0 THEN "requires at least 1 arg(s), only received 0"
    ELSE IF ~ContainsEq(args[1])
      THEN IF Len(args) = 2
             THEN IF IsValidConfigOption(args[1]) THEN "" ELSE "invalid option"
             ELSE "too many arguments"
    ELSE IF \E i \in 1..Len(args) :
              Len(SplitEq(args[i])) < 2 \/ ~IsValidConfigOption(SplitEq(args[i])[1])
      THEN "invalid option"
    ELSE ""

\* cobra.NoArgs of configureDebugCmd
noArgs(args) == IF Len(args) = 0 THEN "" ELSE "unknown command"

validateArgs(cmd, args) ==
    IF cmd = "set" THEN setArgs(args)
    ELSE IF cmd = "debug" THEN noArgs(args)
    ELSE namesArgs(args)

\* configureSetCmd.Run: the loop `options[arr[0]] = arr[1]` over the
\* arguments from the i-th on; a later argument replaces an earlier one
RECURSIVE setLoop(_, _, _)
setLoop(args, i, options) ==
    IF i > Len(args) THEN options
    ELSE LET arr == SplitEq(args[i])
         IN setLoop(args, i + 1,
                    (arr[1][1] :> arr[2]) @@ options)

NoOptions == [o \in {} |-> <<>>]

\* configureSetCmd.Run: the options handed to configuration.Set
setOptions(args) ==
    IF ~ContainsEq(args[1]) THEN (args[1][1] :> args[2])
    ELSE setLoop(args, 1, NoOptions)

\* configuration.Set(scope, options) on the store it read: the options are
\* merged into the scope, the rest of the store is kept
applySet(st, scope, options) ==
    {t \in st : ~(t[1] = scope /\ t[2] \in DOMAIN options)}
    \cup {<<scope, o, options[o]>> : o \in DOMAIN options}

\* configuration.Unset(scope, names) on the store it read
applyUnset(st, scope, names) ==
    {t \in st : ~(t[1] = scope /\ \E i \in 1..Len(names) : names[i] = <<t[2]>>)}

\* the scopes: the root directory, a directory in it, a directory in that
Root == <<>>
Scopes == {Root, <<"a">>, <<"a", "b">>}

\* the directory above a scope
Parent(scope) == SubSeq(scope, 1, Len(scope) - 1)

\* the value of an option that no source defines
Default(option) == [value |-> <<>>, source |-> "default", scope |-> Root]

\* scopedValue that looks in the scope itself and in no directory above it
scopedValueNoAncestors(st, scope, option) ==
    IF \E t \in st : t[1] = scope /\ t[2] = option
      THEN [value |-> (CHOOSE t \in st : t[1] = scope /\ t[2] = option)[3],
            source |-> "scope", scope |-> scope]
    ELSE Default(option)

\* the lookup of one option in the store: the scope itself, then the
\* directories above it, the nearest one first
RECURSIVE scopedValue(_, _, _)
scopedValue(st, scope, option) ==
    IF \E t \in st : t[1] = scope /\ t[2] = option
      THEN [value |-> (CHOOSE t \in st : t[1] = scope /\ t[2] = option)[3],
            source |-> "scope", scope |-> scope]
    ELSE IF scope = Root THEN Default(option)
    ELSE scopedValue(st, Parent(scope), option)

\* configuration.LocalConfig: flag, then environment, then the store
LocalConfig(flags, env, st, scope) ==
    [o \in Whitelist |->
        IF o \in DOMAIN flags
          THEN [value |-> flags[o], source |-> "flag", scope |-> Root]
        ELSE IF o \in DOMAIN env
          THEN [value |-> env[o], source |-> "environment", scope |-> Root]
        ELSE scopedValue(st, scope, o)]

\* the argument strings configure is given
ArgStrings ==
    { <<"token">>, <<"bogus">>,
      <<"token", "=", "abc">>, <<"token", "=">>, <<"token", "=", "a", "=", "b">>,
      <<"project", "=", "web">>, <<"bogus", "=", "1">> }

ArgLists == UNION {[1..n -> ArgStrings] : n \in 0..MaxArgs}

Commands == {"get", "set", "unset", "debug"}

\* the two invocations that can be under way at once
Slots == {1, 2}

\* the options a flag or an environment variable can give
Overridable == {"token", "project"}
Overrides(value) == UNION {[S -> {value}] : S \in SUBSET Overridable}

IdleInv ==
    [pc |-> "idle", cmd |-> "", args |-> <<>>, scope |-> Root, start |-> {},
     snap |-> {}, err |-> "", looked |-> FALSE, wrote |-> FALSE]

NoneResolved == [flags |-> NoOptions, env |-> NoOptions, scope |-> Root,
                 config |-> LocalConfig(NoOptions, NoOptions, {}, Root)]

InitialStore == {<<Root, "token", <<"old">>>>, <<(<<"a">>), "project", <<"api">>>>}

ConfInit ==
    /\ store = InitialStore
    /\ inv = [p \in Slots |-> IdleInv]
    /\ calls = 0
    /\ events = <<>>
    /\ resolved = NoneResolved

Init == RunInit /\ ConfInit

\* the start of an invocation: cobra runs the command's Args, and its Run
\* only when Args returned no error
ConfigureArgs(p, cmd, args, scope) ==
    /\ inv[p].pc \in {"idle", "done"}
    /\ calls < MaxCalls
    /\ calls' = calls + 1
    /\ LET err == validateArgs(cmd, args)
       IN inv' = [inv EXCEPT ![p] =
                    [IdleInv EXCEPT !.pc = IF err = "" THEN "run" ELSE "done",
                                    !.cmd = cmd, !.args = args, !.scope = scope,
                                    !.start = store, !.err = err]]
    /\ UNCHANGED <<store, events, resolved, runVars>>

\* configureGetCmd.Run: the options are looked up
ConfigureGet(p) ==
    /\ inv[p].pc = "run"
    /\ inv[p].cmd = "get"
    /\ inv' = [inv EXCEPT ![p].pc = "done", ![p].looked = TRUE]
    /\ events' = Append(events, [p |-> p, kind |-> "read", cmd |-> "get",
                                 scope |-> inv[p].scope, change |-> {}])
    /\ UNCHANGED <<store, calls, resolved, runVars>>

\* configureDebugCmd.Run: the configuration in force is resolved
ConfigureDebug(p, flags, env) ==
    /\ inv[p].pc = "run"
    /\ inv[p].cmd = "debug"
    /\ inv' = [inv EXCEPT ![p].pc = "done", ![p].looked = TRUE]
    /\ resolved' = [flags |-> flags, env |-> env, scope |-> inv[p].scope,
                    config |-> LocalConfig(flags, env, store, inv[p].scope)]
    /\ events' = Append(events, [p |-> p, kind |-> "read", cmd |-> "debug",
                                 scope |-> inv[p].scope, change |-> {}])
    /\ UNCHANGED <<store, calls, runVars>>

\* the change an accepted set or unset asks for, as <<option, value>> pairs
changeOf(cmd, args) ==
    IF cmd = "set"
      THEN {<<o, setOptions(args)[o]>> : o \in DOMAIN setOptions(args)}
      ELSE {<<args[i][1], <<>>>> : i \in 1..Len(args)}

\* ConfigureRead that takes the store as it was when the invocation began
ConfigureReadAtStart(p) ==
    /\ inv[p].pc = "run"
    /\ inv[p].cmd \in {"set", "unset"}
    /\ inv' = [inv EXCEPT ![p].pc = "write", ![p].snap = inv[p].start,
                           ![p].looked = TRUE]
    /\ events' = Append(events, [p |-> p, kind |-> "read", cmd |-> inv[p].cmd,
                                 scope |-> inv[p].scope, change |-> {}])
    /\ UNCHANGED <<store, calls, resolved, runVars>>

\* configuration.Set and configuration.Unset, first half: the store is read
ConfigureRead(p) ==
    /\ inv[p].pc = "run"
    /\ inv[p].cmd \in {"set", "unset"}
    /\ inv' = [inv EXCEPT ![p].pc = "write", ![p].snap = store, ![p].looked = TRUE]
    /\ events' = Append(events, [p |-> p, kind |-> "read", cmd |-> inv[p].cmd,
                                 scope |-> inv[p].scope, change |-> {}])
    /\ UNCHANGED <<store, calls, resolved, runVars>>

\* configuration.Set and configuration.Unset, second half: the store read,
\* with the change made to it, is written back whole
ConfigureWrite(p) ==
    /\ inv[p].pc = "write"
    /\ store' = IF inv[p].cmd = "set"
                  THEN applySet(inv[p].snap, inv[p].scope, setOptions(inv[p].args))
                  ELSE applyUnset(inv[p].snap, inv[p].scope, inv[p].args)
    /\ inv' = [inv EXCEPT ![p].pc = "done", ![p].wrote = TRUE]
    /\ events' = Append(events, [p |-> p, kind |-> "write", cmd |-> inv[p].cmd,
                                 scope |-> inv[p].scope,
                                 change |-> changeOf(inv[p].cmd, inv[p].args)])
    /\ UNCHANGED <<calls, resolved, runVars>>

Next ==
    \/ RunBegin
    \/ GetSecretsEntry
    \/ Attempt
    \/ PerformRequestReturn
    \/ GetSecretsReturn
    \/ RunLaunch

Spec == Init /\ [][Next]_vars

\* the stores configure is started on
InitialStores ==
    { {},
      InitialStore,
      { <<Root, "token", <<"old">>>>, <<(<<"a">>), "token", <<"mid">>>>,
        <<(<<"a", "b">>), "project", <<"web">>>> } }

InitConfigure ==
    /\ RunInit
    /\ file = Absent
    /\ ConfInit!2
    /\ ConfInit!3
    /\ ConfInit!4
    /\ ConfInit!5
    /\ store \in InitialStores

\* one configure invocation, of any command with any arguments, on each
\* of the stores it can be started on
NextConfigure ==
    \/ \E cmd \in Commands, args \in ArgLists, scope \in Scopes :
         /\ calls = 0
         /\ ConfigureArgs(1, cmd, args, scope)
    \/ ConfigureGet(1)
    \/ \E flags \in Overrides(<<"F">>), env \in Overrides(<<"E">>) :
         ConfigureDebug(1, flags, env)
    \/ ConfigureRead(1)
    \/ ConfigureWrite(1)

SpecConfigure == InitConfigure /\ [][NextConfigure]_vars

\* the arguments of the invocations that run at the same time
RaceArgs ==
    { <<(<<"token", "=", "abc">>)>>, <<(<<"project", "=", "web">>)>>,
      <<(<<"token">>)>>, <<(<<"bogus">>)>> }

InitRace ==
    /\ RunInit
    /\ file = Absent
    /\ ConfInit

\* set and unset invocations, up to two under way at once, their reads
\* and writes of the store in any order
NextRace ==
    \/ \E p \in Slots, cmd \in {"set", "unset"}, args \in RaceArgs,
          scope \in {Root, <<"a">>} :
         ConfigureArgs(p, cmd, args, scope)
    \/ \E p \in Slots : ConfigureRead(p)
    \/ \E p \in Slots : ConfigureWrite(p)

SpecRace == InitRace /\ [][NextRace]_vars

(***************************************************************************)
(* The claims                                                              *)
(***************************************************************************)
\* the vocabulary of the claims, stated apart from the code's predicates
Is2xx(s) == s \in 200..299
IsRetryable(s) == s = 429 \/ s \in 100..199 \/ s \in 500..599
IsTransportError(s) == s = 0
IsFinal(s) == ~IsTransportError(s) /\ ~Is2xx(s) /\ ~IsRetryable(s)
Last(h) == h[Len(h)]
Returned == pc = "fetched"
Over == pc \in {"launch", "done"}
FallbackUsable == ReadFile(file).ok /\ ParseDeploySecrets(file.data).ok

\* C1: in every invocation in which fallbackOnly is set no HTTP request is
\* issued, whatever the fallback path is (the empty path included).
C1_NoRequestWhenFallbackOnly == fallbackOnly => attempts = 0

\* C2: one call of performRequest makes at most 5 attempts; when the first 5
\* attempts all answer with a retryable status the call ends after the 5th
\* with an error for the caller, and there is no 6th attempt.
C2_AtMostFiveAttempts ==
    /\ attempts <= 5
    /\ Len(hist) <= 5
    /\ (Len(hist) >= 5 /\ \A i \in 1..5 : IsRetryable(hist[i]))
         => /\ pc # "request"
            /\ attempts = 5
            /\ (Returned => result.err # NilErr)

C2_Witness ==
    /\ Returned
    /\ hist = <<503, 503, 503, 503, 503>>
    /\ attempts = 5
    /\ result.err # NilErr

\* C3 as stated: k retryable answers (k in 0..4) and then a 2xx answer give
\* exactly k+1 attempts, and the call returns that status and its body with
\* no error; no attempt follows a 2xx answer.
C3_SuccessAfterRetries ==
    /\ \A i \in 1..(Len(hist) - 1) : ~Is2xx(hist[i])
    /\ (Returned /\ Len(hist) > 0 /\ Is2xx(Last(hist))
          /\ \A i \in 1..(Len(hist) - 1) : IsRetryable(hist[i]))
         => /\ attempts = Len(hist)
            /\ result.status = Last(hist)
            /\ result.body = response.body
            /\ result.err = NilErr

\* C3 as amended: the same, with the body and no error returned when the
\* body of the 2xx response is read without error; when reading it fails the
\* call returns the status, no body and the read error.
C3_SuccessAfterRetriesBodyRead ==
    /\ \A i \in 1..(Len(hist) - 1) : ~Is2xx(hist[i])
    /\ (Returned /\ Len(hist) > 0 /\ Is2xx(Last(hist))
          /\ \A i \in 1..(Len(hist) - 1) : IsRetryable(hist[i]))
         => /\ attempts = Len(hist)
            /\ Len(hist) <= 5
            /\ result.status = Last(hist)
            /\ response.status = Last(hist)
            /\ (bodyRead = "ok"
                  => result.body = response.body /\ result.err = NilErr)
            /\ (bodyRead # "ok"
                  => result.body = NilBody /\ result.err = ReadErr)

C3_Witness ==
    /\ Returned
    /\ hist = <<503, 429, 100, 503, 200>>
    /\ attempts = 5
    /\ result = [status |-> 200, body |-> SecretsA, err |-> NilErr]

\* C4: after an answer that is neither 2xx nor retryable no further attempt
\* is made; a 404 on the first attempt gives exactly 1 attempt and the call
\* returns an error together with status 404.
C4_FinalStatusStops ==
    /\ \A i \in 1..(Len(hist) - 1) : ~IsFinal(hist[i])
    /\ (Len(hist) > 0 /\ IsFinal(Last(hist))) => pc # "request"
    /\ (Returned /\ Len(hist) > 0 /\ IsFinal(Last(hist)))
         => /\ attempts = Len(hist)
            /\ result.status = Last(hist)
            /\ result.err # NilErr
    /\ (Len(hist) > 0 /\ hist[1] = 404) => attempts = 1 /\ Len(hist) = 1

C4_Witness ==
    /\ Returned
    /\ hist = <<404>>
    /\ attempts = 1
    /\ result.status = 404
    /\ result.err # NilErr

\* C5: after an attempt that failed with a transport error no further attempt
\* is made in the call, at whichever attempt (1..5) it happened, and the call
\* returns an error.
C5_TransportErrorStops ==
    /\ \A i \in 1..(Len(hist) - 1) : ~IsTransportError(hist[i])
    /\ (Len(hist) > 0 /\ IsTransportError(Last(hist)))
         => /\ pc # "request"
            /\ attempts = Len(hist)
            /\ (Returned => result.err # NilErr)

C5_Witness ==
    /\ Returned
    /\ hist = <<503, 429, 0>>
    /\ attempts = 3
    /\ result.err # NilErr

\* C6: when the network fetch failed and a fallback path is configured,
\* getSecrets consults the fallback file, and a file that reads and parses
\* gives the secrets it returns, the child is launched and the fetch error
\* is not fatal; when no fallback path is configured the fetch error is
\* fatal, no secrets are returned and the child is not launched.
C6_FallbackAfterFailedFetch ==
    (Over /\ fetched = "failed")
      => /\ fallbackPath # ""
              => /\ consulted
                 /\ fatal # "Unable to fetch secrets"
                 /\ FallbackUsable
                      => /\ secrets = ParseDeploySecrets(file.data)
                         /\ secrets.ok
                         /\ fatal \in {"", "Error trying to execute command"}
                         /\ (pc = "done" => launched)
         /\ fallbackPath = ""
              => /\ ~consulted
                 /\ result.err # NilErr
                 /\ fatal = "Unable to fetch secrets"
                 /\ ~secrets.ok
                 /\ pc = "done"
                 /\ ~launched

C6_Witness ==
    /\ pc = "done"
    /\ fetched = "failed"
    /\ fallbackPath # ""
    /\ file.data = SecretsB
    /\ secrets = [ok |-> TRUE, map |-> ("DB_URL" :> "h/db") @@ ("HOME" :> "/tmp")]
    /\ launched
    /\ fatal = ""

\* C7: with the fetch successful, a fallback path configured and read-only
\* mode off, a failure to write the fallback file is not fatal: the payload
\* is parsed, its secrets are returned and the child is launched.
C7_WriteFailureNotFatal ==
    (Over /\ wrote \in {"fail", "partial"} /\ ParseDeploySecrets(result.body).ok)
      => /\ fatal # "Unable to write fallback file"
         /\ secrets = ParseDeploySecrets(result.body)
         /\ (pc = "done" => launched)

\* C8: the content of the fallback file, once the program has written it,
\* is a payload that parses into a secrets mapping: a 2xx response whose
\* body does not parse never replaces the previous content.
C8_FallbackContentParses ==
    wrote = "ok" => ParseDeploySecrets(file.data).ok

\* C9: the fallback file is changed only by a fetch whose network request
\* succeeded, with a fallback path configured and read-only mode off; a
\* failed fetch, read-only mode and fallback-only mode leave it as it is.
C9_FileChangedOnlyOnSuccess ==
    [][file' # file
         => /\ fetched = "ok"
            /\ fallbackPath # ""
            /\ ~fallbackReadonly
            /\ ~skipNetwork(fallbackPath, fallbackOnly)
            /\ wrote' \in {"ok", "partial"}]_vars

C9_Witness ==
    /\ Over
    /\ wrote = "ok"
    /\ fetched = "ok"
    /\ fallbackPath # ""
    /\ ~fallbackReadonly
    /\ file = [exists |-> TRUE, readable |-> TRUE, data |-> SecretsA]

\* C10: whenever the fallback file is consulted and it is absent, unreadable
\* or does not parse, the invocation is fatal: no secrets are returned, no
\* further source is tried and the child is not launched.
C10_FallbackFailureFatal ==
    (consulted /\ ~FallbackUsable)
      => /\ pc = "done"
         /\ fatal \in {"Unable to read fallback file", "Unable to parse fallback file"}
         /\ (fatal = "Unable to read fallback file") = ~ReadFile(file).ok
         /\ ~secrets.ok
         /\ ~launched
         /\ wrote = "no"
         /\ (fetched = "none" => attempts = 0)

C10_Witness ==
    /\ pc = "done"
    /\ consulted
    /\ fallbackOnly
    /\ file = Absent
    /\ attempts = 0
    /\ fatal = "Unable to read fallback file"
    /\ ~launched

\* the names the claims call reserved
Reserved == {"PATH", "PS1", "HOME"}
Count(env, n) == Cardinality({i \in 1..Len(env) : EntryName(env[i]) = n})
NamesOf(env) == {EntryName(env[i]) : i \in 1..Len(env)}
Injected == DOMAIN secrets.map \ Reserved

\* C11: the entries the run command adds to the child environment never
\* carry the names PATH, PS1 or HOME, even when the secrets define them;
\* every other secret name is added exactly once, with its value.
C11_ReservedNamesNotInjected ==
    launched
      => /\ \A n \in NamesOf(childEnv) \cup NamesOf(environ) \cup DOMAIN secrets.map
                     \cup Reserved :
              Count(childEnv, n) - Count(environ, n) = (IF n \in Injected THEN 1 ELSE 0)
         /\ \A n \in Injected :
              \E i \in 1..Len(childEnv) : childEnv[i] = <<n, "=", secrets.map[n]>>
         /\ \A n \in Reserved, i \in 1..Len(childEnv) :
              EntryName(childEnv[i]) = n
                => \E j \in 1..Len(environ) : environ[j] = childEnv[i]

C11_Witness ==
    /\ launched
    /\ {"PATH", "PS1", "API_KEY"} \subseteq DOMAIN secrets.map
    /\ Count(environ, "PATH") = 1
    /\ Count(childEnv, "PATH") = 1
    /\ Count(childEnv, "PS1") = 0
    /\ Count(childEnv, "API_KEY") = 2

\* C12: the environment handed to the child is the pre-existing environment,
\* unchanged and in its order, followed by the injected secrets, so that an
\* injected secret comes after a pre-existing variable of the same name.
C12_EnvironmentPreserved ==
    launched
      => /\ Len(childEnv) = Len(environ) + Cardinality(Injected)
         /\ \A i \in 1..Len(environ) : childEnv[i] = environ[i]
         /\ \A i \in (Len(environ) + 1)..Len(childEnv) :
              /\ EntryName(childEnv[i]) \in Injected
              /\ childEnv[i] = <<EntryName(childEnv[i]), "=",
                                 secrets.map[EntryName(childEnv[i])]>>
         /\ \A i, j \in 1..Len(childEnv) :
              (EntryName(childEnv[i]) = EntryName(childEnv[j])
                 /\ childEnv[j] \notin {environ[k] : k \in 1..Len(environ)})
                => i <= j

C12_Witness ==
    /\ launched
    /\ Len(environ) = 3
    /\ Len(childEnv) = 4
    /\ childEnv[3] = <<"API_KEY", "=", "old">>
    /\ childEnv[4] = <<"API_KEY", "=", "y">>

\* the entries of a messages array joined with newlines, in order
JoinedWithNewlines(messages) ==
    [k \in 1..(IF Len(messages) = 0 THEN 0 ELSE 2 * Len(messages) - 1) |->
        IF k % 2 = 1 THEN messages[(k + 1) \div 2] ELSE "\n"]

\* C13: when performRequest ends with an error after the last attempt got an
\* HTTP response, that response's body is read: a body that is read and
\* parses as JSON gives the status, the body and an error whose message is
\* the messages joined with newlines in order; otherwise the call returns
\* the status and an error with no body.
C13_ErrorFromResponseBody ==
    (Returned /\ result.err # NilErr /\ Len(hist) > 0 /\ ~IsTransportError(Last(hist)))
      => /\ result.status = Last(hist)
         /\ response = [present |-> TRUE, status |-> Last(hist), body |-> response.body]
         /\ bodyRead \in {"ok", "failed"}
         /\ (bodyRead = "ok" /\ response.body.json)
              => /\ result.body = response.body
                 /\ result.err.msgs = JoinedWithNewlines(response.body.messages)
         /\ ~(bodyRead = "ok" /\ response.body.json)
              => /\ result.body = NilBody
                 /\ result.err \in {ReadErr, JSONErr}

C13_Witness ==
    /\ Returned
    /\ hist = <<503, 404>>
    /\ result.status = 404
    /\ result.body = ErrorBody
    /\ result.err.msgs = <<"Invalid token", "\n", "Try again">>

\* C18: the status and the body one performRequest call returns are those of
\* the last attempt made: after a last attempt that failed with a transport
\* error the call returns status 0, no body and the transport error, also
\* when an earlier attempt had received a retryable response.
C18_ResultOfLastAttempt ==
    (Returned /\ Len(hist) > 0)
      => /\ result.status = Last(hist)
         /\ IsTransportError(Last(hist))
              => result = [status |-> 0, body |-> NilBody, err |-> TransportErr]

\* C19: performRequest returns no error only with a status in 200..299 and
\* the body of that response; with a status outside 200..299 (0 included) it
\* returns an error, also when the messages of the error body are empty.
C19_NoErrorOnlyOn2xx ==
    Returned
      => /\ result.err = NilErr
              => /\ Is2xx(result.status)
                 /\ result.status = Last(hist)
                 /\ response.status = result.status
                 /\ result.body = response.body
         /\ ~Is2xx(result.status) => result.err # NilErr

C19_Witness ==
    /\ Returned
    /\ result.status = 404
    /\ result.body.json
    /\ result.body.messages = <<>>
    /\ result.err = [kind |-> "api", msgs |-> <<>>]

\* the transitions of one fetch as the state machine of the design gives them
StatedTransitions ==
    {<<"START", "RESOLVING">>, <<"RESOLVING", "FETCHING">>,
     <<"FETCHING", "SUCCESS">>, <<"FETCHING", "FALLBACK">>,
     <<"FALLBACK", "CACHED_OK">>, <<"FALLBACK", "FATAL">>,
     <<"SUCCESS", "DONE">>, <<"CACHED_OK", "DONE">>, <<"FATAL", "DONE">>}

\* and the three more the fetch can take
FurtherTransitions ==
    {<<"RESOLVING", "FALLBACK">>, <<"FETCHING", "FATAL">>, <<"SUCCESS", "FATAL">>}

Follows(allowed) ==
    /\ trail # <<>> => trail[1] = "START"
    /\ \A i \in 1..(Len(trail) - 1) : <<trail[i], trail[i + 1]>> \in allowed

LaunchOnlyWithSecrets ==
    /\ launched
         => /\ secrets.ok
            /\ trail # <<>> /\ Last(trail) = "DONE"
            /\ \E i \in 1..Len(trail) : trail[i] \in {"SUCCESS", "CACHED_OK"}
            /\ \A i \in 1..Len(trail) : trail[i] # "FATAL"
            /\ (fetched = "ok" /\ ~consulted) \/ (consulted /\ FallbackUsable)
    /\ (\E i \in 1..Len(trail) : trail[i] = "FATAL")
         => ~launched /\ pc = "done" /\ ~secrets.ok /\ fatal # ""

\* C16 as stated: the child is launched only after the fetch produced a
\* secrets mapping, never after a fatal fetch, and the stages of one fetch
\* follow only START, RESOLVING, FETCHING, then SUCCESS or FALLBACK (then
\* CACHED_OK or FATAL), then DONE.
C16_LaunchAfterFetchStated == LaunchOnlyWithSecrets /\ Follows(StatedTransitions)

\* C16 as amended: the same, the stages of one fetch following the stated
\* transitions and also RESOLVING to FALLBACK (fallback-only mode skips
\* FETCHING), FETCHING to FATAL (a failed fetch with no fallback path) and
\* SUCCESS to FATAL (the fetched payload cannot be written or parsed).
C16_LaunchAfterFetch ==
    LaunchOnlyWithSecrets /\ Follows(StatedTransitions \cup FurtherTransitions)

C16_Witness ==
    /\ pc = "done"
    /\ launched
    /\ fallbackOnly
    /\ secrets.ok
    /\ trail = <<"START", "RESOLVING", "FALLBACK", "CACHED_OK", "DONE">>


\* the text of an argument before its first '=' (all of it when it has none)
RECURSIVE firstEq(_, _)
firstEq(s, i) == IF i > Len(s) \/ s[i] = "=" THEN i ELSE firstEq(s, i + 1)
Before(s) == SubSeq(s, 1, firstEq(s, 1) - 1)

\* the text of an argument after its first '='
After(s) == SubSeq(s, firstEq(s, 1) + 1, Len(s))

\* the option names an invocation gives: every argument of get and unset;
\* for set, the first argument when it has no '=', else the text before the
\* first '=' of every argument
NamedOptions(cmd, args) ==
    IF cmd \in {"get", "unset"} THEN {args[i] : i \in 1..Len(args)}
    ELSE IF Len(args) = 0 THEN {}
    ELSE IF ~ContainsEq(args[1]) THEN {args[1]}
    ELSE {Before(args[i]) : i \in 1..Len(args)}

NamesUnlisted(p) ==
    /\ inv[p].pc # "idle"
    /\ inv[p].cmd \in {"get", "set", "unset"}
    /\ \E name \in NamedOptions(inv[p].cmd, inv[p].args) :
         ~(Len(name) = 1 /\ name[1] \in Whitelist)

\* the store was neither looked up nor written by the invocation
Untouched(p) ==
    /\ inv[p].pc = "done"
    /\ ~inv[p].looked
    /\ ~inv[p].wrote
    /\ store = inv[p].start
    /\ \A i \in 1..Len(events) : events[i].p # p

\* C14 as stated: an invocation of get, set or unset in which an argument
\* names an option outside the whitelist is rejected with "invalid option"
\* before any lookup in or write to the store, which stays as it was.
\* Violated: `configure set bogus` is rejected with "too many arguments".
C14_InvalidOptionRejectedStated ==
    \A p \in Slots :
        NamesUnlisted(p) => inv[p].err = "invalid option" /\ Untouched(p)

\* C14 amended: such an invocation is rejected before any lookup in or
\* write to the store, which stays as it was; the error is "invalid option",
\* except for a set whose first argument has no '=' and that has not
\* exactly two arguments, where it is "too many arguments".
C14_InvalidOptionRejected ==
    \A p \in Slots :
        NamesUnlisted(p) =>
            /\ Untouched(p)
            /\ inv[p].err =
                 IF /\ inv[p].cmd = "set"
                    /\ ~ContainsEq(inv[p].args[1])
                    /\ Len(inv[p].args) # 2
                   THEN "too many arguments"
                   ELSE "invalid option"

\* an unset naming a listed and an unlisted option was rejected on a store
\* that holds the listed one
C14_Witness ==
    \E p \in Slots :
        /\ NamesUnlisted(p)
        /\ inv[p].cmd = "unset"
        /\ inv[p].args = <<(<<"token">>), (<<"bogus">>)>>
        /\ inv[p].err = "invalid option"
        /\ \E t \in store : t[1] = inv[p].scope /\ t[2] = "token"


\* the scopes on the path from a scope up to the root, itself included
PathToRoot(scope) == {SubSeq(scope, 1, k) : k \in 0..Len(scope)}

\* the scopes on that path in which the store defines the option
Defining(st, scope, option) ==
    {d \in PathToRoot(scope) : \E t \in st : t[1] = d /\ t[2] = option}

\* a debug invocation has resolved the configuration
Resolved(p) == inv[p].pc = "done" /\ inv[p].cmd = "debug" /\ inv[p].err = ""

\* C15: every option is resolved, on its own, to the value and provenance
\* of the first source that defines it: the flag, then the environment
\* variable, then the nearest scope on the path from the requested scope
\* up to the root that defines it in the store, then the default.
C15_ResolutionPrecedence ==
    Resolved(1) =>
        \A o \in Whitelist :
            LET r == resolved.config[o]
                D == Defining(store, resolved.scope, o)
            IN IF o \in DOMAIN resolved.flags
                 THEN r.source = "flag" /\ r.value = resolved.flags[o]
               ELSE IF o \in DOMAIN resolved.env
                 THEN r.source = "environment" /\ r.value = resolved.env[o]
               ELSE IF D # {}
                 THEN /\ r.source = "scope"
                      /\ r.scope \in D
                      /\ \A d \in D : Len(d) <= Len(r.scope)
                      /\ <<r.scope, o, r.value>> \in store
               ELSE r.source = "default"

\* with no flag and an environment variable for project only, debug in
\* /a/b took token from /a although the root defines it too, and project
\* from the environment although /a/b defines it
C15_Witness ==
    /\ Resolved(1)
    /\ resolved.scope = <<"a", "b">>
    /\ DOMAIN resolved.flags = {}
    /\ DOMAIN resolved.env = {"project"}
    /\ Defining(store, resolved.scope, "token") = {Root, <<"a">>}
    /\ resolved.config["token"].scope = <<"a">>
    /\ resolved.config["token"].value = <<"mid">>
    /\ Defining(store, resolved.scope, "project") = {<<"a", "b">>}
    /\ resolved.config["project"].source = "environment"
    /\ resolved.config["enclave"].source = "default"


\* an accepted set has written the store
SetDone(p) ==
    inv[p].pc = "done" /\ inv[p].cmd = "set" /\ inv[p].err = "" /\ inv[p].wrote

\* C20: for every accepted argument of set in the option=value form the
\* value stored for the option is the whole text after the first '=' of the
\* argument (of the last such argument when an option is given twice), also
\* when that text is empty or contains '='; in the form `set option value`
\* the stored value is the second argument unchanged.
\* Violated: `configure set token=a=b` stores "a" for token.
C20_StoredValueIsTextAfterFirstEq ==
    SetDone(1) =>
        LET args == inv[1].args
        IN IF ~ContainsEq(args[1])
             THEN <<inv[1].scope, args[1][1], args[2]>> \in store
             ELSE \A i \in 1..Len(args) :
                      (\A j \in (i + 1)..Len(args) : Before(args[j]) # Before(args[i]))
                          => <<inv[1].scope, Before(args[i])[1], After(args[i])>> \in store


\* no invocation is under way
AllQuiet == \A p \in Slots : inv[p].pc \in {"idle", "done"}

\* the invocations ran one after the other: each read of the store is
\* followed at once by the write of the same invocation
OneAfterTheOther ==
    \A i \in 1..Len(events) :
        events[i].kind = "read" =>
            /\ i < Len(events)
            /\ events[i + 1].kind = "write"
            /\ events[i + 1].p = events[i].p

\* the i-th event is a write whose change to option o no later write undoes
LastWriteOf(i, o) ==
    /\ events[i].kind = "write"
    /\ \E c \in events[i].change : c[1] = o
    /\ \A j \in (i + 1)..Len(events) :
         ~(/\ events[j].kind = "write"
           /\ events[j].scope = events[i].scope
           /\ \E c \in events[j].change : c[1] = o)

\* the store shows the change the i-th event made to option o
Kept(i, o) ==
    IF events[i].cmd = "set"
      THEN \E c \in events[i].change :
               c[1] = o /\ <<events[i].scope, o, c[2]>> \in store
      ELSE ~\E t \in store : t[1] = events[i].scope /\ t[2] = o

\* C17, second half: when set and unset invocations run one after the
\* other, the store shows every change that no later invocation made to
\* the same option of the same scope: both changes are kept.
C17_SequentialKeepsBoth ==
    (AllQuiet /\ OneAfterTheOther) =>
        \A i \in 1..Len(events) : \A o \in Whitelist :
            LastWriteOf(i, o) => Kept(i, o)

\* C17, first half: a lost update.  Two invocations that changed different
\* options have both ended, their reads and writes interleaved, and the
\* store lacks the change of the one that wrote first.
C17_Witness ==
    /\ AllQuiet
    /\ ~OneAfterTheOther
    /\ \E i \in 1..Len(events), j \in 1..Len(events), o \in Whitelist :
         /\ i < j
         /\ events[j].kind = "write"
         /\ events[j].p # events[i].p
         /\ LastWriteOf(i, o)
         /\ ~Kept(i, o)

====
